---- MODULE Spec2Model ----
(***************************************************************************)
(* Emerald Railroads: the ticket-booking backend (Django + DRF).           *)
(*                                                                         *)
(* The database rows are the state.  An order creation (POST /orders/) is  *)
(* a multi-step request: the nested ticket serializers are validated one   *)
(* by one against the committed rows, then OrderSerializer.create runs one *)
(* transaction that inserts the Order row and each Ticket row and commits. *)
(* Rows written by a transaction stay private to it until it commits; the  *)
(* unique index on (cargo, seat, journey) is the only thing two            *)
(* transactions share.  Every other request is one atomic step.            *)
(***************************************************************************)
EXTENDS Integers, Sequences, FiniteSets, TLC

VARIABLES
    stations,   \* set of stored Station ids
    routes,     \* Route id -> [source, destination]
    trains,     \* Train id -> [cargo_num, places_in_cargo, train_type, image]
    journeys,   \* Journey id -> [route, train, departure_time, arrival_time]
    crews,      \* set of stored Crew ids
    traintypes, \* set of stored TrainType ids
    seq,        \* the last id the database gave out, per table
    orders,     \* Order id -> [user]
    tickets,    \* set of stored Ticket rows [id, cargo, seat, journey, order]
    req,        \* request slot -> the order creation in flight in it
    posted,     \* number of order creations received so far
    resp,       \* the response sent by the step just taken, NoResp if it sent none
    now,        \* the clock read by datetime.now()
    cmd         \* the run of the wait_for_db command and the database it waits for

(* The reference data, the bookings, the order creations in flight. *)
ref == <<stations, routes, trains, journeys, crews, traintypes, seq>>

book == <<orders, tickets>>

flight == <<req, posted>>

vars == <<ref, book, flight, resp, now, cmd>>

----------------------------------------------------------------------------
(* Bounds *)

NumReq == 2          \* request slots: order creations that can be in flight at once
MaxPosts == 2        \* order creations received in one behaviour
MaxTickets == 2      \* nested tickets in one order payload
MaxCap == 2          \* largest cargo_num / places_in_cargo a train is given
NumJourneys == 2     \* journeys of the fixture
MaxTime == 1         \* the clock runs 0..MaxTime
MaxRows == 3         \* rows a table of the reference data is ever given
TicksPerDay == 2     \* clock ticks in a day
MaxDeparture == 3    \* the latest departure time staff set
MaxTries == 16       \* attempts of wait_for_db that are counted

Slots == 1..NumReq
JourneyIds == 1..NumJourneys
TrainIds == 1..2
RouteIds == 1..2
StationIds == 1..2

is_authenticated(u) == u # "anon"

is_staff(u) == u = "admin"

----------------------------------------------------------------------------
(* Ticket.validate_seat: the name of the field in error, or "ok". *)

validate_seat_strict(seat, cargo, places_in_cargo, cargo_num) ==
    IF ~(1 <= seat /\ seat < places_in_cargo) THEN "seat"
    ELSE IF ~(1 <= cargo /\ cargo < cargo_num) THEN "cargo"
    ELSE "ok"

validate_seat(seat, cargo, places_in_cargo, cargo_num) ==
    IF ~(1 <= seat /\ seat <= places_in_cargo) THEN "seat"
    ELSE IF ~(1 <= cargo /\ cargo <= cargo_num) THEN "cargo"
    ELSE "ok"

CargoSeat(t) == <<t.cargo, t.seat>>

(* The triple of the unique_together constraint of Ticket. *)
Triple(t) == <<t.cargo, t.seat, t.journey>>

NoPending(r) == {}

(* Rows written by the open transaction of slot r, not yet committed. *)
Pending(r) ==
    IF req[r].pc \in {"insert", "commit"}
    THEN {[id |-> <<req[r].id, i>>, cargo |-> req[r].data[i].cargo,
           seat |-> req[r].data[i].seat, journey |-> req[r].data[i].journey,
           order |-> req[r].id] : i \in 1..(req[r].k - 1)}
    ELSE {}

IdleReq == [pc |-> "idle", id |-> 0, user |-> "anon", data |-> <<>>,
            seen |-> <<>>, errors |-> <<>>, k |-> 0, status |-> 0]

(* wait_for_db when it is started: no attempt made, while the database    *)
(* is down.  raised counts the attempts that raised OperationalError,      *)
(* slept the seconds slept, waiting the "Waiting for connection..." lines  *)
(* written, code is the value returned (-1 while running).                 *)
StartCmd == [pc |-> "try", up |-> FALSE, raised |-> 0, slept |-> 0, waiting |-> 0,
             code |-> -1]

(* resp after a step that sends no response. *)
NoResp == [user |-> "anon", resource |-> "none", action |-> "none",
           pk |-> 0, status |-> 0, body |-> <<>>]

(* Serializer-level data of one nested ticket. *)
TicketData(C, S, J) == [cargo : C, seat : S, journey : J]

PayloadsUpTo(T, n) == UNION {[1..m -> T] : m \in 0..n}

Payloads(T) == PayloadsUpTo(T, MaxTickets)

NoTrain == [places_in_cargo |-> 0, cargo_num |-> 0]

----------------------------------------------------------------------------
(* Permissions *)

Method(act) ==
    CASE act \in {"list", "retrieve"} -> "GET"
      [] act \in {"create", "upload_image"} -> "POST"
      [] act = "update" -> "PUT"
      [] act = "partial_update" -> "PATCH"
      [] act = "destroy" -> "DELETE"

SAFE_METHODS == {"GET", "HEAD", "OPTIONS"}

has_permission_any_read(u, act) ==
    \/ Method(act) \in SAFE_METHODS
    \/ is_staff(u)

has_permission_any_user(u, act) ==
    \/ act = "list"
    \/ (is_authenticated(u) /\ Method(act) \in SAFE_METHODS)
    \/ is_authenticated(u)

(* AllowAnyListOnlyUserReadOnlyAdminAll.has_permission *)
has_permission(u, act) ==
    \/ act = "list"
    \/ (is_authenticated(u) /\ Method(act) \in SAFE_METHODS)
    \/ is_staff(u)

(* Station, Route, Train and Journey view sets name no permission class:   *)
(* the project default applies.                                            *)
DefaultPermission(u, act) == has_permission(u, act)

(* OrderViewSet: IsAuthenticated; CrewViewSet, TrainTypeViewSet: IsAdminUser *)
Permitted(res, u, act) ==
    CASE res = "order" -> is_authenticated(u)
      [] res \in {"crew", "traintype"} -> is_staff(u)
      [] OTHER -> DefaultPermission(u, act)

(* A request without credentials is answered 401, any other refusal 403. *)
DeniedStatus(u) == IF is_authenticated(u) THEN 403 ELSE 401

----------------------------------------------------------------------------
(* Order creation: POST /orders/ *)

(* OrderViewSet.permission_classes = (IsAuthenticated,): an anonymous      *)
(* request ends here; otherwise is_valid() starts on the nested tickets.   *)
PostOrder(r, u, data) ==
    /\ req[r].pc \in {"idle", "done"}
    /\ posted < MaxPosts
    /\ posted' = posted + 1
    /\ req' = [req EXCEPT ![r] =
                 IF ~Permitted("order", u, "create")
                 THEN [IdleReq EXCEPT !.pc = "done", !.id = posted + 1,
                                      !.user = u, !.data = data,
                                      !.status = DeniedStatus(u)]
                 ELSE [IdleReq EXCEPT !.pc = IF Len(data) = 0 THEN "create" ELSE "validate",
                                      !.id = posted + 1, !.user = u, !.data = data,
                                      !.k = 1]]
    /\ resp' = NoResp
    /\ UNCHANGED <<ref, book, now, cmd>>

(* UniqueTogetherValidator of TicketSerializer: a committed ticket with    *)
(* the same (cargo, seat, journey) exists.                                  *)
UniqueTogetherExists(d) == \E t \in tickets : Triple(t) = Triple(d)

(* The train the journey of ticket data d runs on, as read now. *)
TrainOf(d) == trains[journeys[d.journey].train]

TicketErrorsSoldOut(d) ==
    IF d.journey \notin DOMAIN journeys THEN "journey"
    ELSE IF UniqueTogetherExists(d) THEN "unique"
    ELSE IF TrainOf(d).cargo_num * TrainOf(d).places_in_cargo
            <= Cardinality({t \in tickets : t.journey = d.journey}) THEN "sold_out"
    ELSE validate_seat(d.seat, d.cargo,
                       TrainOf(d).places_in_cargo, TrainOf(d).cargo_num)

(* TicketSerializer.run_validation on one nested ticket: the field in      *)
(* error or "ok".  The journey is looked up first (PrimaryKeyRelatedField), *)
(* then the validators run, then validate() calls validate_seat.           *)
TicketErrors(d) ==
    IF d.journey \notin DOMAIN journeys THEN "journey"
    ELSE IF UniqueTogetherExists(d) THEN "unique"
    ELSE validate_seat(d.seat, d.cargo,
                       TrainOf(d).places_in_cargo, TrainOf(d).cargo_num)

(* The train row cached on the journey instance by validate(). *)
TrainSeen(d) ==
    IF d.journey \in DOMAIN journeys /\ ~UniqueTogetherExists(d)
    THEN [places_in_cargo |-> TrainOf(d).places_in_cargo,
          cargo_num |-> TrainOf(d).cargo_num]
    ELSE NoTrain

AllOk(errs) == \A i \in 1..Len(errs) : errs[i] = "ok"

(* is_valid(): the list serializer validates ticket k; after the last one  *)
(* the request is answered 400 if any ticket is in error.                  *)
ValidateTicket(r) ==
    /\ req[r].pc = "validate"
    /\ LET q == req[r]
           d == q.data[q.k]
           errs == Append(q.errors, TicketErrors(d))
           seen == Append(q.seen, TrainSeen(d))
       IN req' = [req EXCEPT ![r] =
                    IF q.k < Len(q.data)
                    THEN [q EXCEPT !.errors = errs, !.seen = seen, !.k = q.k + 1]
                    ELSE IF AllOk(errs)
                    THEN [q EXCEPT !.errors = errs, !.seen = seen, !.pc = "create", !.k = 1]
                    ELSE [q EXCEPT !.errors = errs, !.seen = seen, !.pc = "done",
                                   !.status = 400]]
    /\ resp' = NoResp
    /\ UNCHANGED <<ref, book, posted, now, cmd>>

(* OrderSerializer.create: transaction.atomic() is entered and the Order   *)
(* row is inserted.                                                        *)
CreateOrder(r) ==
    /\ req[r].pc = "create"
    /\ req' = [req EXCEPT ![r].pc = IF Len(req[r].data) = 0 THEN "commit" ELSE "insert",
                          ![r].k = 1]
    /\ resp' = NoResp
    /\ UNCHANGED <<ref, book, posted, now, cmd>>

(* Ticket.clean, called by Ticket.save, on the cached train. *)
clean(r, i) ==
    validate_seat(req[r].data[i].seat, req[r].data[i].cargo,
                  req[r].seen[i].places_in_cargo, req[r].seen[i].cargo_num)

NoUniqueIndex(r, d) == FALSE

UniqueAmongCommitted(r, d) == \E t \in tickets : Triple(t) = Triple(d)

(* The unique index sees the committed rows and the transaction's own. *)
UniqueViolation(r, d) == \E t \in tickets \cup Pending(r) : Triple(t) = Triple(d)

NoRowLock(r, d) == {}

(* The other transactions holding an uncommitted row with d's triple: the  *)
(* insert waits for them to commit or roll back.                           *)
Holders(r, d) == {s \in Slots \ {r} : \E t \in Pending(s) : Triple(t) = Triple(d)}

RollbackKeepsRows(r, status) ==
    /\ req' = [req EXCEPT ![r].pc = "done", ![r].status = status]
    /\ orders' = orders @@ (req[r].id :> [user |-> req[r].user])
    /\ tickets' = tickets \cup Pending(r)

(* An exception leaves transaction.atomic(): the rows the transaction      *)
(* wrote are discarded and the request is answered with the error.         *)
Rollback(r, status) ==
    /\ req' = [req EXCEPT ![r].pc = "done", ![r].status = status]
    /\ UNCHANGED book

(* Ticket.objects.create(order=order, **ticket_data) for ticket k. *)
CreateTicket(r) ==
    /\ req[r].pc = "insert"
    /\ LET q == req[r]
           d == q.data[q.k]
       IN IF clean(r, q.k) # "ok" THEN Rollback(r, 400)
          ELSE IF UniqueViolation(r, d) THEN Rollback(r, 500)
          ELSE /\ Holders(r, d) = {}
               /\ IF d.journey \notin DOMAIN journeys THEN Rollback(r, 500)
                  ELSE /\ req' = [req EXCEPT ![r].k = q.k + 1,
                                             ![r].pc = IF q.k = Len(q.data)
                                                       THEN "commit" ELSE "insert"]
                       /\ UNCHANGED book
    /\ resp' = NoResp
    /\ UNCHANGED <<ref, posted, now, cmd>>

(* The slot whose uncommitted row the insert of slot r waits for, or 0. *)
WaitsOn(r) ==
    IF /\ req[r].pc = "insert"
       /\ clean(r, req[r].k) = "ok"
       /\ ~UniqueViolation(r, req[r].data[req[r].k])
       /\ Holders(r, req[r].data[req[r].k]) # {}
    THEN CHOOSE s \in Holders(r, req[r].data[req[r].k]) : TRUE
    ELSE 0

RECURSIVE WaitChain(_, _)
WaitChain(r, n) ==
    IF n = 0 \/ r = 0 THEN {}
    ELSE {WaitsOn(r)} \cup WaitChain(WaitsOn(r), n - 1)

(* The database breaks a cycle of waiting inserts by failing one of them   *)
(* (OperationalError: deadlock detected); its transaction rolls back.      *)
DeadlockAbort(r) ==
    /\ r \in WaitChain(r, NumReq)
    /\ Rollback(r, 500)
    /\ resp' = NoResp
    /\ UNCHANGED <<ref, posted, now, cmd>>

(* Leaving transaction.atomic(): the rows become visible; 201. *)
Commit(r) ==
    /\ req[r].pc = "commit"
    /\ orders' = orders @@ (req[r].id :> [user |-> req[r].user])
    /\ tickets' = tickets \cup Pending(r)
    /\ req' = [req EXCEPT ![r].pc = "done", ![r].status = 201]
    /\ resp' = NoResp
    /\ UNCHANGED <<ref, posted, now, cmd>>

----------------------------------------------------------------------------
(* Single-step requests *)

Respond(u, res, act, pk, status, body) ==
    resp' = [user |-> u, resource |-> res, action |-> act, pk |-> pk,
             status |-> status, body |-> body]

(* router.register(...): the view sets the URL configuration of the app    *)
(* routes to.  CrewViewSet and TrainTypeViewSet are not registered.        *)
Routed(res) == res \in {"station", "train", "route", "journey", "order"}

(* A URL that resolves to no view is answered 404 whoever asks; then the   *)
(* permission check comes before the handler: a refused request touches no *)
(* row.                                                                    *)
Gate(u, res, act, pk, Handler) ==
    IF ~Routed(res)
    THEN /\ Respond(u, res, act, pk, 404, <<>>)
         /\ UNCHANGED <<ref, book>>
    ELSE IF Permitted(res, u, act) THEN Handler
    ELSE /\ Respond(u, res, act, pk, DeniedStatus(u), <<>>)
         /\ UNCHANGED <<ref, book>>

Restrict(f, S) == [x \in S |-> f[x]]

(* Count("tickets") over journey LEFT JOIN ticket: the joined rows of      *)
(* journey j, a single row with a NULL ticket when it has none, and the    *)
(* number of them whose ticket id is not NULL.                             *)
JoinedTickets(j) ==
    IF \E t \in tickets : t.journey = j
    THEN {<<j, t.id>> : t \in {x \in tickets : x.journey = j}}
    ELSE {<<j, "NULL">>}

CountStar(j) == Cardinality(JoinedTickets(j))

CountTickets(j) == Cardinality({row \in JoinedTickets(j) : row[2] # "NULL"})

annotate_count_star(j) ==
    trains[journeys[j].train].cargo_num * trains[journeys[j].train].places_in_cargo
    - CountStar(j)

(* annotate(available_tickets=F("train__cargo_num") *                      *)
(*          F("train__places_in_cargo") - Count("tickets"))               *)
annotate(j) ==
    trains[journeys[j].train].cargo_num * trains[journeys[j].train].places_in_cargo
    - CountTickets(j)

(* The orderings of the set S of journeys by the field f; rows with equal  *)
(* f come in any order.                                                    *)
order_by(S, f) ==
    {s \in [1..Cardinality(S) -> S] :
        /\ \A a, b \in 1..Cardinality(S) : a # b => s[a] # s[b]
        /\ \A a, b \in 1..Cardinality(S) : a < b => journeys[s[a]][f] <= journeys[s[b]][f]}

Item(kind, j) == [kind |-> kind, id |-> j, available_tickets |-> annotate(j)]

Items(kind, s) == [i \in 1..Len(s) |-> Item(kind, s[i])]

Perms(S) ==
    {s \in [1..Cardinality(S) -> S] : \A a, b \in 1..Cardinality(S) : a # b => s[a] # s[b]}

----------------------------------------------------------------------------
(* Reads *)

UpcomingAll == DOMAIN journeys

Upcoming == {j \in DOMAIN journeys : journeys[j].departure_time >= now}

(* Station.name, a string of characters.  The station writes of the model  *)
(* send the name the station has.                                          *)
StationName(st) ==
    CASE st = 1 -> <<"A", "b">>
      [] st = 2 -> <<"b", "a">>
      [] OTHER -> <<"B">>

lower(c) == CASE c = "A" -> "a" [] c = "B" -> "b" [] OTHER -> c

(* name__icontains=q: q occurs in name, letter case set aside. *)
icontains(name, q) ==
    \E o \in 0..(Len(name) - Len(q)) :
        \A i \in 1..Len(q) : lower(name[o + i]) = lower(q[i])

(* timezone.make_aware(datetime.combine(parse_date(date), time.min)) *)
Midnight(date) == date * TicksPerDay

(* The query parameters source, destination and date; <<>> stands for a    *)
(* parameter that is not given (or empty), <<d>> for the date d.           *)
Filter(S, source, destination, date) ==
    {j \in S :
        /\ source # <<>> =>
              icontains(StationName(routes[journeys[j].route].source), source)
        /\ destination # <<>> =>
              icontains(StationName(routes[journeys[j].route].destination), destination)
        /\ date # <<>> => journeys[j].departure_time >= Midnight(date[1])}

(* GET /journeys/?source=&destination=&date=: JourneyViewSet.get_queryset  *)
(* with action "list"; the body is the pages of the list in order.         *)
JourneySearch(u, source, destination, date) ==
    /\ Gate(u, "journey", "list", 0,
            /\ \E s \in order_by(Filter(Upcoming, source, destination, date),
                                 "departure_time") :
                  Respond(u, "journey", "list", 0, 200, Items("journey", s))
            /\ UNCHANGED <<ref, book>>)
    /\ UNCHANGED <<flight, now, cmd>>

(* GET /journeys/ *)
JourneyList(u) == JourneySearch(u, <<>>, <<>>, <<>>)

(* GET /journeys/<pk>/ *)
JourneyRetrieve(u, pk) ==
    /\ Gate(u, "journey", "retrieve", pk,
            /\ IF pk \in DOMAIN journeys
               THEN Respond(u, "journey", "retrieve", pk, 200, <<Item("journey", pk)>>)
               ELSE Respond(u, "journey", "retrieve", pk, 404, <<>>)
            /\ UNCHANGED <<ref, book>>)
    /\ UNCHANGED <<flight, now, cmd>>

(* StationRetrieveSerializer.get_outgoing_journeys / get_incoming_journeys *)
Outgoing(st) ==
    {j \in DOMAIN journeys :
        journeys[j].arrival_time >= now /\ routes[journeys[j].route].source = st}

Incoming(st) ==
    {j \in DOMAIN journeys :
        journeys[j].departure_time >= now /\ routes[journeys[j].route].destination = st}

(* GET /stations/<pk>/ *)
StationRetrieve(u, pk) ==
    /\ Gate(u, "station", "retrieve", pk,
            /\ IF pk \in stations
               THEN \E o \in order_by(Outgoing(pk), "departure_time"),
                       i \in order_by(Incoming(pk), "arrival_time") :
                       Respond(u, "station", "retrieve", pk, 200,
                               Items("outgoing", o) \o Items("incoming", i))
               ELSE Respond(u, "station", "retrieve", pk, 404, <<>>)
            /\ UNCHANGED <<ref, book>>)
    /\ UNCHANGED <<flight, now, cmd>>

(* RouteRetrieveSerializer.get_upcoming_journeys *)
UpcomingOn(rt) == {j \in Upcoming : journeys[j].route = rt}

(* GET /routes/<pk>/ *)
RouteRetrieve(u, pk) ==
    /\ Gate(u, "route", "retrieve", pk,
            /\ IF pk \in DOMAIN routes
               THEN \E s \in order_by(UpcomingOn(pk), "departure_time") :
                       Respond(u, "route", "retrieve", pk, 200, Items("upcoming", s))
               ELSE Respond(u, "route", "retrieve", pk, 404, <<>>)
            /\ UNCHANGED <<ref, book>>)
    /\ UNCHANGED <<flight, now, cmd>>

(* The rows of a table, by resource name. *)
Stored(res) ==
    CASE res = "station" -> stations
      [] res = "route" -> DOMAIN routes
      [] res = "train" -> DOMAIN trains
      [] res = "journey" -> DOMAIN journeys
      [] res = "crew" -> crews
      [] res = "traintype" -> traintypes
      [] res = "order" -> DOMAIN orders

OrdersOfAnyone(u) == DOMAIN orders

(* OrderViewSet.get_queryset: the requester's orders. *)
OrdersOf(u) == {o \in DOMAIN orders : orders[o].user = u}

OrderItem(o) ==
    [kind |-> "order", id |-> o, tickets |-> {Triple(t) : t \in {x \in tickets : x.order = o}}]

(* GET /orders/ *)
OrderList(u) ==
    /\ Gate(u, "order", "list", 0,
            /\ \E s \in Perms(OrdersOf(u)) :
                  Respond(u, "order", "list", 0, 200, [i \in 1..Len(s) |-> OrderItem(s[i])])
            /\ UNCHANGED <<ref, book>>)
    /\ UNCHANGED <<flight, now, cmd>>

(* GET /orders/<pk>/ *)
OrderRetrieve(u, pk) ==
    /\ Gate(u, "order", "retrieve", pk,
            /\ IF pk \in OrdersOf(u)
               THEN Respond(u, "order", "retrieve", pk, 200, <<OrderItem(pk)>>)
               ELSE Respond(u, "order", "retrieve", pk, 404, <<>>)
            /\ UNCHANGED <<ref, book>>)
    /\ UNCHANGED <<flight, now, cmd>>

(* GET /stations/, /routes/, /trains/, /crew/, /traintypes/ *)
PlainList(u, res) ==
    /\ res \in {"station", "route", "train", "crew", "traintype"}
    /\ Gate(u, res, "list", 0,
            /\ \E s \in Perms(Stored(res)) :
                  Respond(u, res, "list", 0, 200, [i \in 1..Len(s) |-> [kind |-> res, id |-> s[i]]])
            /\ UNCHANGED <<ref, book>>)
    /\ UNCHANGED <<flight, now, cmd>>

(* GET /trains/<pk>/, /crew/<pk>/, /traintypes/<pk>/ *)
PlainRetrieve(u, res, pk) ==
    /\ res \in {"train", "crew", "traintype"}
    /\ Gate(u, res, "retrieve", pk,
            /\ IF pk \in Stored(res)
               THEN Respond(u, res, "retrieve", pk, 200, <<[kind |-> res, id |-> pk]>>)
               ELSE Respond(u, res, "retrieve", pk, 404, <<>>)
            /\ UNCHANGED <<ref, book>>)
    /\ UNCHANGED <<flight, now, cmd>>

DestroyOrderKeepsTickets(u, o) ==
    /\ Gate(u, "order", "destroy", o,
            /\ IF o \in OrdersOf(u)
               THEN /\ orders' = Restrict(orders, DOMAIN orders \ {o})
                    /\ tickets' = tickets
                    /\ Respond(u, "order", "destroy", o, 204, <<>>)
               ELSE /\ UNCHANGED <<orders, tickets>>
                    /\ Respond(u, "order", "destroy", o, 404, <<>>)
            /\ UNCHANGED ref)
    /\ UNCHANGED <<flight, now, cmd>>

(* DELETE /orders/<pk>/: OrderViewSet.get_queryset keeps the requester's   *)
(* orders only; the tickets go with the order (on_delete=CASCADE).         *)
DestroyOrder(u, o) ==
    /\ Gate(u, "order", "destroy", o,
            /\ IF o \in OrdersOf(u)
               THEN /\ orders' = Restrict(orders, DOMAIN orders \ {o})
                    /\ tickets' = {t \in tickets : t.order # o}
                    /\ Respond(u, "order", "destroy", o, 204, <<>>)
               ELSE /\ UNCHANGED <<orders, tickets>>
                    /\ Respond(u, "order", "destroy", o, 404, <<>>)
            /\ UNCHANGED ref)
    /\ UNCHANGED <<flight, now, cmd>>

(* PUT/PATCH /orders/<pk>/: OrderSerializer defines no update(), and the   *)
(* inherited one refuses nested ticket data; without ticket data a PATCH   *)
(* has nothing to set.  No row changes.                                    *)
OrderUpdate(u, act, pk, has_tickets, data) ==
    /\ act \in {"update", "partial_update"}
    /\ Gate(u, "order", act, pk,
            /\ Respond(u, "order", act, pk,
                       IF pk \notin OrdersOf(u) THEN 404
                       ELSE IF ~has_tickets THEN (IF act = "update" THEN 400 ELSE 200)
                       ELSE IF \E i \in 1..Len(data) : TicketErrors(data[i]) # "ok" THEN 400
                       ELSE 500,
                       <<>>)
            /\ UNCHANGED <<ref, book>>)
    /\ UNCHANGED <<flight, now, cmd>>

----------------------------------------------------------------------------
(* Writes on the reference data *)

Writes == {"create", "update", "partial_update", "destroy"}

RouteFields == {"source", "destination"}

TrainFieldsWithImage == {"cargo_num", "places_in_cargo", "train_type", "image"}

(* TrainSerializer.Meta.fields that can be written: no image. *)
TrainFields == {"cargo_num", "places_in_cargo", "train_type"}

(* A train row before the serializer's data is set: Train.image is null. *)
BlankTrain == [cargo_num |-> 0, places_in_cargo |-> 0, train_type |-> 0, image |-> FALSE]

JourneyFields == {"route", "train", "departure_time", "arrival_time"}

(* A payload is a record of the fields it carries.  A POST or PUT payload  *)
(* must carry every field; a PATCH payload may omit any.                   *)
Complete(data, fields) == DOMAIN data = fields

Merge(old, data) ==
    [f \in DOMAIN old |-> IF f \in DOMAIN data THEN data[f] ELSE old[f]]

(* A serializer reads the fields it declares and ignores the rest. *)
Known(data, fields) == [f \in DOMAIN data \cap fields |-> data[f]]

(* A foreign key given in the payload names a stored row. *)
RefOk(data, f, S) == f \notin DOMAIN data \/ data[f] \in S

ProtectedAsTrain(res, pk) ==
    res = "train" /\ pk \in DOMAIN trains /\ trains[pk].train_type \in traintypes

(* on_delete=PROTECT: the row pk of res is referenced through a protected  *)
(* foreign key, which is Train.train_type and no other.                    *)
Protected(res, pk) ==
    res = "traintype" /\ \E t \in DOMAIN trains : trains[t].train_type = pk

DropJourneysKeepTickets(JS) ==
    /\ journeys' = Restrict(journeys, DOMAIN journeys \ JS)
    /\ UNCHANGED tickets

(* An insert of a ticket takes a key-share lock on its journey: a delete   *)
(* of the journey waits for the inserting transaction to end.              *)
NoPendingOn(JS) == \A r \in Slots : \A t \in Pending(r) : t.journey \notin JS

(* on_delete=CASCADE from Journey to Ticket *)
DropJourneys(JS) ==
    /\ NoPendingOn(JS)
    /\ journeys' = Restrict(journeys, DOMAIN journeys \ JS)
    /\ tickets' = {t \in tickets : t.journey \notin JS}

(* The response of a write; a create answers with the new row's id. *)
Wrote(u, res, act, pk, status) == Respond(u, res, act, pk, status, <<>>)

(* POST/PUT/PATCH/DELETE /stations/ *)
StationWrite(u, act, pk, valid) ==
    /\ act \in Writes
    /\ Gate(u, "station", act, pk,
         CASE act = "create" ->
                IF ~valid
                THEN Wrote(u, "station", act, pk, 400) /\ UNCHANGED <<ref, book>>
                ELSE /\ seq.station < MaxRows
                     /\ stations' = stations \cup {seq.station + 1}
                     /\ seq' = [seq EXCEPT !.station = @ + 1]
                     /\ Wrote(u, "station", act, seq.station + 1, 201)
                     /\ UNCHANGED <<routes, trains, journeys, crews, traintypes, book>>
           [] act \in {"update", "partial_update"} ->
                /\ Wrote(u, "station", act, pk,
                         IF pk \notin stations THEN 404 ELSE IF valid THEN 200 ELSE 400)
                /\ UNCHANGED <<ref, book>>
           [] act = "destroy" ->
                IF pk \notin stations
                THEN Wrote(u, "station", act, pk, 404) /\ UNCHANGED <<ref, book>>
                ELSE LET RS == {r \in DOMAIN routes :
                                  routes[r].source = pk \/ routes[r].destination = pk}
                     IN /\ stations' = stations \ {pk}
                        /\ routes' = Restrict(routes, DOMAIN routes \ RS)
                        /\ DropJourneys({j \in DOMAIN journeys : journeys[j].route \in RS})
                        /\ Wrote(u, "station", act, pk, 204)
                        /\ UNCHANGED <<trains, crews, traintypes, seq, orders>>)
    /\ UNCHANGED <<flight, now, cmd>>

(* POST/PUT/PATCH/DELETE /routes/ *)
RouteWrite(u, act, pk, data) ==
    /\ act \in Writes
    /\ Gate(u, "route", act, pk,
         LET ok == RefOk(data, "source", stations) /\ RefOk(data, "destination", stations)
         IN
         CASE act = "create" ->
                IF ~(ok /\ Complete(data, RouteFields))
                THEN Wrote(u, "route", act, pk, 400) /\ UNCHANGED <<ref, book>>
                ELSE /\ seq.route < MaxRows
                     /\ routes' = routes @@ ((seq.route + 1) :> data)
                     /\ seq' = [seq EXCEPT !.route = @ + 1]
                     /\ Wrote(u, "route", act, seq.route + 1, 201)
                     /\ UNCHANGED <<stations, trains, journeys, crews, traintypes, book>>
           [] act \in {"update", "partial_update"} ->
                IF pk \notin DOMAIN routes
                THEN Wrote(u, "route", act, pk, 404) /\ UNCHANGED <<ref, book>>
                ELSE IF ~(ok /\ (act = "partial_update" \/ Complete(data, RouteFields)))
                THEN Wrote(u, "route", act, pk, 400) /\ UNCHANGED <<ref, book>>
                ELSE /\ routes' = [routes EXCEPT ![pk] = Merge(@, data)]
                     /\ Wrote(u, "route", act, pk, 200)
                     /\ UNCHANGED <<stations, trains, journeys, crews, traintypes, seq, book>>
           [] act = "destroy" ->
                IF pk \notin DOMAIN routes
                THEN Wrote(u, "route", act, pk, 404) /\ UNCHANGED <<ref, book>>
                ELSE /\ routes' = Restrict(routes, DOMAIN routes \ {pk})
                     /\ DropJourneys({j \in DOMAIN journeys : journeys[j].route = pk})
                     /\ Wrote(u, "route", act, pk, 204)
                     /\ UNCHANGED <<stations, trains, crews, traintypes, seq, orders>>)
    /\ UNCHANGED <<flight, now, cmd>>

(* POST/PUT/PATCH/DELETE /trains/: TrainSerializer has no image field. *)
TrainWrite(u, act, pk, data) ==
    /\ act \in Writes
    /\ Gate(u, "train", act, pk,
         LET d == Known(data, TrainFields)
             ok == RefOk(d, "train_type", traintypes)
         IN
         CASE act = "create" ->
                IF ~(ok /\ Complete(d, TrainFields))
                THEN Wrote(u, "train", act, pk, 400) /\ UNCHANGED <<ref, book>>
                ELSE /\ seq.train < MaxRows
                     /\ trains' = trains @@ ((seq.train + 1) :> Merge(BlankTrain, d))
                     /\ seq' = [seq EXCEPT !.train = @ + 1]
                     /\ Wrote(u, "train", act, seq.train + 1, 201)
                     /\ UNCHANGED <<stations, routes, journeys, crews, traintypes, book>>
           [] act \in {"update", "partial_update"} ->
                IF pk \notin DOMAIN trains
                THEN Wrote(u, "train", act, pk, 404) /\ UNCHANGED <<ref, book>>
                ELSE IF ~(ok /\ (act = "partial_update" \/ Complete(d, TrainFields)))
                THEN Wrote(u, "train", act, pk, 400) /\ UNCHANGED <<ref, book>>
                ELSE /\ trains' = [trains EXCEPT ![pk] = Merge(@, d)]
                     /\ Wrote(u, "train", act, pk, 200)
                     /\ UNCHANGED <<stations, routes, journeys, crews, traintypes, seq, book>>
           [] act = "destroy" ->
                IF pk \notin DOMAIN trains
                THEN Wrote(u, "train", act, pk, 404) /\ UNCHANGED <<ref, book>>
                ELSE IF Protected("train", pk)
                THEN Wrote(u, "train", act, pk, 500) /\ UNCHANGED <<ref, book>>
                ELSE /\ trains' = Restrict(trains, DOMAIN trains \ {pk})
                     /\ DropJourneys({j \in DOMAIN journeys : journeys[j].train = pk})
                     /\ Wrote(u, "train", act, pk, 204)
                     /\ UNCHANGED <<stations, routes, crews, traintypes, seq, orders>>)
    /\ UNCHANGED <<flight, now, cmd>>

(* POST /trains/<pk>/upload-image/: TrainViewSet.upload_image *)
UploadImage(u, pk, valid) ==
    /\ Gate(u, "train", "upload_image", pk,
         IF pk \notin DOMAIN trains
         THEN Wrote(u, "train", "upload_image", pk, 500) /\ UNCHANGED <<ref, book>>
         ELSE IF ~valid
         THEN Wrote(u, "train", "upload_image", pk, 400) /\ UNCHANGED <<ref, book>>
         ELSE /\ trains' = [trains EXCEPT ![pk].image = TRUE]
              /\ Wrote(u, "train", "upload_image", pk, 200)
              /\ UNCHANGED <<stations, routes, journeys, crews, traintypes, seq, book>>)
    /\ UNCHANGED <<flight, now, cmd>>

(* POST/PUT/PATCH/DELETE /journeys/ *)
JourneyWrite(u, act, pk, data) ==
    /\ act \in Writes
    /\ Gate(u, "journey", act, pk,
         LET ok == RefOk(data, "route", DOMAIN routes) /\ RefOk(data, "train", DOMAIN trains)
         IN
         CASE act = "create" ->
                IF ~(ok /\ Complete(data, JourneyFields))
                THEN Wrote(u, "journey", act, pk, 400) /\ UNCHANGED <<ref, book>>
                ELSE /\ seq.journey < MaxRows
                     /\ journeys' = journeys @@ ((seq.journey + 1) :> data)
                     /\ seq' = [seq EXCEPT !.journey = @ + 1]
                     /\ Wrote(u, "journey", act, seq.journey + 1, 201)
                     /\ UNCHANGED <<stations, routes, trains, crews, traintypes, book>>
           [] act \in {"update", "partial_update"} ->
                IF pk \notin DOMAIN journeys
                THEN Wrote(u, "journey", act, pk, 404) /\ UNCHANGED <<ref, book>>
                ELSE IF ~(ok /\ (act = "partial_update" \/ Complete(data, JourneyFields)))
                THEN Wrote(u, "journey", act, pk, 400) /\ UNCHANGED <<ref, book>>
                ELSE /\ journeys' = [journeys EXCEPT ![pk] = Merge(@, data)]
                     /\ Wrote(u, "journey", act, pk, 200)
                     /\ UNCHANGED <<stations, routes, trains, crews, traintypes, seq, book>>
           [] act = "destroy" ->
                IF pk \notin DOMAIN journeys
                THEN Wrote(u, "journey", act, pk, 404) /\ UNCHANGED <<ref, book>>
                ELSE /\ DropJourneys({pk})
                     /\ Wrote(u, "journey", act, pk, 204)
                     /\ UNCHANGED <<stations, routes, trains, crews, traintypes, seq, orders>>)
    /\ UNCHANGED <<flight, now, cmd>>

(* POST/PUT/PATCH/DELETE /crew/ *)
CrewWrite(u, act, pk, valid) ==
    /\ act \in Writes
    /\ Gate(u, "crew", act, pk,
         CASE act = "create" ->
                IF ~valid
                THEN Wrote(u, "crew", act, pk, 400) /\ UNCHANGED <<ref, book>>
                ELSE /\ seq.crew < MaxRows
                     /\ crews' = crews \cup {seq.crew + 1}
                     /\ seq' = [seq EXCEPT !.crew = @ + 1]
                     /\ Wrote(u, "crew", act, seq.crew + 1, 201)
                     /\ UNCHANGED <<stations, routes, trains, journeys, traintypes, book>>
           [] act \in {"update", "partial_update"} ->
                /\ Wrote(u, "crew", act, pk,
                         IF pk \notin crews THEN 404 ELSE IF valid THEN 200 ELSE 400)
                /\ UNCHANGED <<ref, book>>
           [] act = "destroy" ->
                IF pk \notin crews
                THEN Wrote(u, "crew", act, pk, 404) /\ UNCHANGED <<ref, book>>
                ELSE /\ crews' = crews \ {pk}
                     /\ Wrote(u, "crew", act, pk, 204)
                     /\ UNCHANGED <<stations, routes, trains, journeys, traintypes, seq, book>>)
    /\ UNCHANGED <<flight, now, cmd>>

(* POST/PUT/PATCH/DELETE /traintypes/: Train.train_type is on_delete=PROTECT *)
TrainTypeWrite(u, act, pk, valid) ==
    /\ act \in Writes
    /\ Gate(u, "traintype", act, pk,
         CASE act = "create" ->
                IF ~valid
                THEN Wrote(u, "traintype", act, pk, 400) /\ UNCHANGED <<ref, book>>
                ELSE /\ seq.traintype < MaxRows
                     /\ traintypes' = traintypes \cup {seq.traintype + 1}
                     /\ seq' = [seq EXCEPT !.traintype = @ + 1]
                     /\ Wrote(u, "traintype", act, seq.traintype + 1, 201)
                     /\ UNCHANGED <<stations, routes, trains, journeys, crews, book>>
           [] act \in {"update", "partial_update"} ->
                /\ Wrote(u, "traintype", act, pk,
                         IF pk \notin traintypes THEN 404 ELSE IF valid THEN 200 ELSE 400)
                /\ UNCHANGED <<ref, book>>
           [] act = "destroy" ->
                IF pk \notin traintypes
                THEN Wrote(u, "traintype", act, pk, 404) /\ UNCHANGED <<ref, book>>
                ELSE IF Protected("traintype", pk)
                THEN Wrote(u, "traintype", act, pk, 500) /\ UNCHANGED <<ref, book>>
                ELSE /\ traintypes' = traintypes \ {pk}
                     /\ Wrote(u, "traintype", act, pk, 204)
                     /\ UNCHANGED <<stations, routes, trains, journeys, crews, seq, book>>)
    /\ UNCHANGED <<flight, now, cmd>>

(* Time passes. *)
Tick ==
    /\ now < MaxTime
    /\ now' = now + 1
    /\ resp' = NoResp
    /\ UNCHANGED <<ref, book, flight, cmd>>

----------------------------------------------------------------------------
(* The fixture: two stations, a route each way, one train type, one crew   *)
(* member, two trains of different layout, and a journey per route.        *)

Init ==
    /\ stations = {1, 2}
    /\ routes = (1 :> [source |-> 1, destination |-> 2])
                @@ (2 :> [source |-> 2, destination |-> 1])
    /\ crews = {1}
    /\ traintypes = {1}
    /\ trains = (1 :> [cargo_num |-> 1, places_in_cargo |-> MaxCap,
                       train_type |-> 1, image |-> FALSE])
                @@ (2 :> [cargo_num |-> MaxCap, places_in_cargo |-> 1,
                          train_type |-> 1, image |-> FALSE])
    /\ journeys = [j \in JourneyIds |->
                     [route |-> IF j = 1 THEN 1 ELSE 2,
                      train |-> IF j = 1 THEN 1 ELSE 2,
                      departure_time |-> IF j = 1 THEN MaxTime ELSE 0,
                      arrival_time |-> MaxTime]]
    /\ seq = [station |-> 2, route |-> 2, train |-> 2, journey |-> NumJourneys,
              crew |-> 1, traintype |-> 1]
    /\ orders = <<>>
    /\ tickets = {}
    /\ req = [r \in Slots |-> IdleReq]
    /\ posted = 0
    /\ resp = NoResp
    /\ now = 0
    /\ cmd = StartCmd

(* Concurrent booking: two customers post orders at once and delete their  *)
(* own.                                                                    *)
Customer(r) == IF r = 1 THEN "alice" ELSE "bob"

RaceInputs == TicketData(1..MaxCap, 1..MaxCap, JourneyIds)

Next ==
    \/ \E r \in Slots, data \in Payloads(RaceInputs) : PostOrder(r, Customer(r), data)
    \/ \E r \in Slots : ValidateTicket(r)
    \/ \E r \in Slots : CreateOrder(r)
    \/ \E r \in Slots : CreateTicket(r)
    \/ \E r \in Slots : DeadlockAbort(r)
    \/ \E r \in Slots : Commit(r)
    \/ \E o \in DOMAIN orders : DestroyOrder(orders[o].user, o)

Spec == Init /\ [][Next]_vars

----------------------------------------------------------------------------
(* Properties of concurrent booking (Spec) *)

Done(r) == req[r].pc = "done"

Rejected(r) == Done(r) /\ req[r].status # 201

Triples(data) == {Triple(data[i]) : i \in 1..Len(data)}

NoDuplicates(data) == \A a, b \in 1..Len(data) : a # b => Triple(data[a]) # Triple(data[b])

(* Every ticket of the payload is within the layout of its journey's train *)
InRange(d) ==
    /\ d.journey \in DOMAIN journeys
    /\ 1 <= d.seat /\ d.seat <= TrainOf(d).places_in_cargo
    /\ 1 <= d.cargo /\ d.cargo <= TrainOf(d).cargo_num

AllInRange(data) == \A i \in 1..Len(data) : InRange(data[i])

(* C1: in every reachable state no two stored tickets have the same        *)
(* (cargo, seat, journey).                                                 *)
C1_NoDoubleBooking ==
    \A t1, t2 \in tickets : Triple(t1) = Triple(t2) => t1 = t2

(* A seat is booked and an order that asked for the same seat was refused. *)
C1_Witness ==
    \E r \in Slots : \E t \in tickets :
        /\ Rejected(r)
        /\ t.order # req[r].id
        /\ Triple(t) \in Triples(req[r].data)

(* No row of an order creation that has not committed is stored. *)
NothingOfUncommitted ==
    \A r \in Slots :
        (req[r].pc # "idle" /\ ~(Done(r) /\ req[r].status = 201)) =>
            /\ req[r].id \notin DOMAIN orders
            /\ \A t \in tickets : t.order # req[r].id

(* A committed order is stored with all of its tickets. *)
AllOfCommitted ==
    \A r \in Slots :
        (Done(r) /\ req[r].status = 201 /\ req[r].id \in DOMAIN orders) =>
            {Triple(t) : t \in {x \in tickets : x.order = req[r].id}} = Triples(req[r].data)

(* The step that refuses a request leaves orders and tickets alone. *)
RefusalChangesNothing ==
    \A r \in Slots :
        (~Done(r) /\ req'[r].pc = "done" /\ req'[r].status # 201) => UNCHANGED book

(* C2: order creation is all-or-nothing.  No row of an order creation that *)
(* has not committed is stored, a committed order is stored with all of    *)
(* its tickets, and the step that refuses a request leaves the stored      *)
(* orders and tickets as they were.                                        *)
C2_AllOrNothing ==
    /\ [](NothingOfUncommitted /\ AllOfCommitted)
    /\ [][RefusalChangesNothing]_vars

(* An order is refused at the insert of its second ticket, after its first *)
(* ticket was written inside the transaction.                              *)
C2_Witness ==
    \E r \in Slots :
        /\ Rejected(r) /\ req[r].status = 500 /\ req[r].k = 2
        /\ NoDuplicates(req[r].data)
        /\ tickets # {}

(* Slots r and s hold the only two order creations received: both ask for  *)
(* a common (cargo, seat, journey), every ticket of both is in range,      *)
(* neither lists a seat twice, and no order has been deleted since.        *)
RaceOf(r, s) ==
    /\ r # s
    /\ posted = 2
    /\ req[r].pc # "idle" /\ req[s].pc # "idle"
    /\ Triples(req[r].data) \cap Triples(req[s].data) # {}
    /\ AllInRange(req[r].data) /\ AllInRange(req[s].data)
    /\ NoDuplicates(req[r].data) /\ NoDuplicates(req[s].data)
    /\ \A x \in {r, s} : (Done(x) /\ req[x].status = 201) => req[x].id \in DOMAIN orders

(* C4: of two otherwise valid order creations that ask for the same        *)
(* (cargo, seat, journey) and run concurrently, exactly one commits; the   *)
(* other stores no Order row and no ticket.                                *)
C4_ExactlyOneCommits ==
    \A r, s \in Slots :
        (RaceOf(r, s) /\ Done(r) /\ Done(s)) =>
            /\ (req[r].status = 201) # (req[s].status = 201)
            /\ \A x \in {r, s} :
                  req[x].status # 201 =>
                      /\ req[x].id \notin DOMAIN orders
                      /\ \A t \in tickets : t.order # req[x].id

(* Both passed validation before either committed, and both have ended. *)
C4_Witness ==
    \E r, s \in Slots :
        /\ RaceOf(r, s) /\ Done(r) /\ Done(s)
        /\ AllOk(req[r].errors) /\ Len(req[r].errors) = Len(req[r].data)
        /\ AllOk(req[s].errors) /\ Len(req[s].errors) = Len(req[s].data)

(* C5: an order creation that loses because one of its tickets collides    *)
(* with a seat booked by another order is answered with a validation error *)
(* (400), whether the collision is seen at validation or at insert.        *)
C5_LoserGets400 ==
    \A r \in Slots :
        (/\ Rejected(r)
         /\ AllInRange(req[r].data) /\ NoDuplicates(req[r].data)
         /\ \E t \in tickets : t.order # req[r].id /\ Triple(t) \in Triples(req[r].data))
        => req[r].status = 400

----------------------------------------------------------------------------
(* Range validation: one customer posts orders one after the other, with   *)
(* cargo and seat numbers from 0 to one past the largest layout.           *)

BoundaryInputs == TicketData(0..(MaxCap + 1), 0..(MaxCap + 1), JourneyIds)

NextRange ==
    \/ \E data \in Payloads(BoundaryInputs) : PostOrder(1, "alice", data)
    \/ ValidateTicket(1)
    \/ CreateOrder(1)
    \/ CreateTicket(1)
    \/ Commit(1)

SpecRange == Init /\ [][NextRange]_vars

(* C3: order creation rejects every nested ticket whose seat is outside    *)
(* [1, places_in_cargo] or whose cargo is outside [1, cargo_num] of the    *)
(* train of its journey, and accepts 1 and the maximum: a ticket that      *)
(* reaches the range check passes it exactly when it is in range, an order *)
(* with an out-of-range ticket is answered 400 and stores nothing, and an  *)
(* order of distinct in-range free seats is created.                       *)
C3_RangeChecked ==
    \A r \in Slots :
        /\ \A i \in 1..Len(req[r].errors) :
              /\ req[r].errors[i] = "ok" => InRange(req[r].data[i])
              /\ req[r].errors[i] \in {"seat", "cargo"} <=> ~InRange(req[r].data[i])
              /\ req[r].errors[i] = "seat" <=>
                    ~(1 <= req[r].data[i].seat
                      /\ req[r].data[i].seat <= TrainOf(req[r].data[i]).places_in_cargo)
        /\ (Done(r) /\ ~AllInRange(req[r].data)) =>
              /\ req[r].status = 400
              /\ req[r].id \notin DOMAIN orders
              /\ \A t \in tickets : t.order # req[r].id
        /\ (Done(r) /\ AllInRange(req[r].data) /\ NoDuplicates(req[r].data)
              /\ \A i \in 1..Len(req[r].errors) : req[r].errors[i] # "unique") =>
              req[r].status = 201
        /\ \A t \in tickets : InRange(t)

(* An order whose first ticket has the largest seat and cargo of its train *)
(* and whose second has a seat one past the largest is answered 400.       *)
C3_Witness ==
    \E r \in Slots :
        /\ Done(r) /\ req[r].status = 400 /\ Len(req[r].data) = 2
        /\ req[r].data[1].seat = TrainOf(req[r].data[1]).places_in_cargo
        /\ req[r].data[1].cargo = TrainOf(req[r].data[1]).cargo_num
        /\ req[r].errors[1] = "ok"
        /\ req[r].data[2].seat = TrainOf(req[r].data[2]).places_in_cargo + 1
        /\ req[r].errors[2] = "seat"

----------------------------------------------------------------------------
(* Booking while staff edit the reference data: one customer posts and     *)
(* deletes orders and reads availability, staff change the layout of the   *)
(* trains and put journeys on another train, and time passes.              *)

Caps == 1..MaxCap

(* Tickets for a seat of the first cargo. *)
StaffInputs == TicketData({1}, Caps, JourneyIds)

(* PUT and PATCH payloads for a train. *)
TrainPayloads ==
    [cargo_num : Caps, places_in_cargo : Caps, train_type : {1}]
    \cup [cargo_num : Caps] \cup [places_in_cargo : Caps]

NextStaff ==
    \/ \E data \in PayloadsUpTo(StaffInputs, 1) : PostOrder(1, "alice", data)
    \/ ValidateTicket(1)
    \/ CreateOrder(1)
    \/ CreateTicket(1)
    \/ Commit(1)
    \/ \E o \in DOMAIN orders : DestroyOrder(orders[o].user, o)
    \/ \E act \in {"update", "partial_update"}, data \in TrainPayloads :
          TrainWrite("admin", act, 1, data)
    \/ \E t \in TrainIds : JourneyWrite("admin", "partial_update", 1, [train |-> t])
    \/ JourneyList("alice")
    \/ \E pk \in JourneyIds : JourneyRetrieve("alice", pk)
    \/ \E pk \in StationIds : StationRetrieve("alice", pk)
    \/ \E pk \in RouteIds : RouteRetrieve("alice", pk)
    \/ Tick

SpecStaff == Init /\ [][NextStaff]_vars

(* The journey items of a response: those of any kind carry the journey's  *)
(* id and its available_tickets.                                           *)
JourneyKinds == {"journey", "outgoing", "incoming", "upcoming"}

(* The tickets stored for journey j. *)
Issued(j) == {t \in tickets : t.journey = j}

Capacity(j) ==
    trains[journeys[j].train].cargo_num * trains[journeys[j].train].places_in_cargo

(* C6: the available_tickets a journey list, journey retrieve, station     *)
(* retrieve or route retrieve reports for a journey is cargo_num x         *)
(* places_in_cargo of its train minus the number of tickets stored for it  *)
(* when the response is sent.                                              *)
C6_AvailableTickets ==
    \A i \in 1..Len(resp.body) :
        resp.body[i].kind \in JourneyKinds =>
            /\ resp.body[i].id \in DOMAIN journeys
            /\ resp.body[i].available_tickets
                  = Capacity(resp.body[i].id) - Cardinality(Issued(resp.body[i].id))

(* A read reports a journey with two tickets issued, another reports one   *)
(* with none: here the journey list shows both at once.                    *)
C6_Witness ==
    /\ resp.resource = "journey" /\ resp.action = "list" /\ resp.status = 200
    /\ \E i, k \in 1..Len(resp.body) :
          /\ Cardinality(Issued(resp.body[i].id)) = 2
          /\ Cardinality(Issued(resp.body[k].id)) = 0

(* C7: every stored ticket has 1 <= seat <= places_in_cargo and            *)
(* 1 <= cargo <= cargo_num of the current train of its journey, also after *)
(* staff change a train's layout or put a journey on another train.        *)
C7_StoredTicketsInRange ==
    \A t \in tickets : InRange(t)

(* C8: the tickets stored for a journey never outnumber cargo_num x        *)
(* places_in_cargo of its train, so available_tickets is never negative.   *)
C8_NeverOversold ==
    \A j \in DOMAIN journeys : Cardinality(Issued(j)) <= Capacity(j)

----------------------------------------------------------------------------
(* The API as an anonymous visitor and a customer see it: each sends every *)
(* kind of request to every resource, while staff add a station and        *)
(* cancel a journey.                                                       *)

Visitors == {"anon", "alice"}

Pks == {1, MaxRows}   \* a row of the fixture and a row that is not there at first

ApiInputs == TicketData({1}, {1}, JourneyIds)

NewRoute == [source |-> 2, destination |-> 2]

NewTrain == [cargo_num |-> 1, places_in_cargo |-> 1, train_type |-> 1]

NewJourney == [route |-> 2, train |-> 1, departure_time |-> 0, arrival_time |-> 0]

NextApi ==
    \/ \E u \in Visitors, data \in PayloadsUpTo(ApiInputs, 1) : PostOrder(1, u, data)
    \/ ValidateTicket(1)
    \/ CreateOrder(1)
    \/ CreateTicket(1)
    \/ Commit(1)
    \/ \E u \in Visitors : OrderList(u)
    \/ \E u \in Visitors, pk \in 1..MaxPosts : OrderRetrieve(u, pk)
    \/ \E u \in Visitors, pk \in 1..MaxPosts : DestroyOrder(u, pk)
    \/ \E u \in Visitors, act \in {"update", "partial_update"}, pk \in 1..MaxPosts,
          has_tickets \in BOOLEAN :
          OrderUpdate(u, act, pk, has_tickets, <<[cargo |-> 1, seat |-> 1, journey |-> 1]>>)
    \/ \E u \in Visitors : JourneyList(u)
    \/ \E u \in Visitors, pk \in Pks : JourneyRetrieve(u, pk)
    \/ \E u \in Visitors, pk \in Pks : StationRetrieve(u, pk)
    \/ \E u \in Visitors, pk \in Pks : RouteRetrieve(u, pk)
    \/ \E u \in Visitors, res \in {"station", "route", "train", "crew", "traintype"} :
          PlainList(u, res)
    \/ \E u \in Visitors, res \in {"train", "crew", "traintype"}, pk \in Pks :
          PlainRetrieve(u, res, pk)
    \/ \E u \in Visitors, act \in Writes, pk \in Pks : StationWrite(u, act, pk, TRUE)
    \/ \E u \in Visitors, act \in Writes, pk \in Pks : RouteWrite(u, act, pk, NewRoute)
    \/ \E u \in Visitors, act \in Writes, pk \in Pks : TrainWrite(u, act, pk, NewTrain)
    \/ \E u \in Visitors, pk \in Pks, valid \in BOOLEAN : UploadImage(u, pk, valid)
    \/ \E u \in Visitors, act \in Writes, pk \in Pks : JourneyWrite(u, act, pk, NewJourney)
    \/ \E u \in Visitors, act \in Writes, pk \in Pks : CrewWrite(u, act, pk, TRUE)
    \/ \E u \in Visitors, act \in Writes, pk \in Pks : TrainTypeWrite(u, act, pk, TRUE)
    \/ StationWrite("admin", "create", 0, TRUE)
    \/ JourneyWrite("admin", "destroy", 2, NewJourney)

SpecApi == Init /\ [][NextApi]_vars

(* The resources of the default permission class. *)
OpenToAll == {"station", "train", "route", "journey"}

(* What a request without credentials is answered. *)
AnonymousAnswer ==
    /\ (resp.resource # "none" /\ resp.user = "anon") =>
           IF resp.action = "list" /\ resp.resource \in OpenToAll
           THEN resp.status = 200
           ELSE resp.status = 401
    /\ \A r \in Slots : (req[r].pc # "idle" /\ req[r].user = "anon") =>
           Done(r) /\ req[r].status = 401

(* A step answering a request without credentials other than a list. *)
AnonymousStep ==
    \/ resp' # resp /\ resp'.resource # "none" /\ resp'.user = "anon"
       /\ ~(resp'.action = "list" /\ resp'.resource \in OpenToAll)
    \/ \E r \in Slots : req'[r] # req[r] /\ req'[r].pc # "idle" /\ req'[r].user = "anon"

(* C9: a request without credentials is permitted only as the list of      *)
(* stations, trains, routes or journeys; any other request, to any         *)
(* resource, is answered 401 and leaves every row as it was.               *)
C9_AnonymousListOnly ==
    []AnonymousAnswer /\ [][AnonymousStep => UNCHANGED <<ref, book>>]_vars

C9_Witness ==
    /\ resp.user = "anon" /\ resp.resource = "journey" /\ resp.action = "retrieve"
    /\ resp.pk \in DOMAIN journeys
    /\ resp.status = 401
    /\ tickets # {}

(* The row pk of resource res is stored. *)
Exists(res, pk) ==
    CASE res = "station" -> pk \in stations
      [] res = "route" -> pk \in DOMAIN routes
      [] res = "train" -> pk \in DOMAIN trains
      [] res = "journey" -> pk \in DOMAIN journeys

(* What a signed-in user who is not staff is answered. *)
CustomerAnswer ==
    (resp.resource \in OpenToAll /\ is_authenticated(resp.user) /\ ~is_staff(resp.user)) =>
        CASE resp.action = "list" -> resp.status = 200
          [] resp.action = "retrieve" ->
                 resp.status = IF Exists(resp.resource, resp.pk) THEN 200 ELSE 404
          [] OTHER -> resp.status = 403

(* A step answering a write of a signed-in user who is not staff. *)
CustomerWrite ==
    /\ resp' # resp
    /\ resp'.resource \in OpenToAll
    /\ is_authenticated(resp'.user) /\ ~is_staff(resp'.user)
    /\ resp'.action \in Writes \cup {"upload_image"}

(* C10: a signed-in user who is not staff may list and retrieve stations,  *)
(* routes, trains and journeys; each of their writes on these, the image   *)
(* upload included, is answered 403 and leaves every row as it was.        *)
C10_CustomerReadOnly ==
    []CustomerAnswer /\ [][CustomerWrite => UNCHANGED <<ref, book>>]_vars

C10_Witness ==
    /\ resp.user = "alice" /\ resp.resource = "train" /\ resp.action = "upload_image"
    /\ resp.pk \in DOMAIN trains
    /\ resp.status = 403

----------------------------------------------------------------------------
(* Staff at work: every write on every resource of the reference data. *)

NextAdmin ==
    \/ \E act \in Writes, pk \in Pks, valid \in BOOLEAN : StationWrite("admin", act, pk, valid)
    \/ \E act \in Writes, pk \in Pks : RouteWrite("admin", act, pk, NewRoute)
    \/ \E act \in Writes, pk \in Pks : TrainWrite("admin", act, pk, NewTrain)
    \/ \E pk \in Pks, valid \in BOOLEAN : UploadImage("admin", pk, valid)
    \/ \E act \in Writes, pk \in Pks : JourneyWrite("admin", act, pk, NewJourney)
    \/ \E act \in Writes, pk \in Pks, valid \in BOOLEAN : CrewWrite("admin", act, pk, valid)
    \/ \E act \in Writes, pk \in Pks, valid \in BOOLEAN : TrainTypeWrite("admin", act, pk, valid)

SpecAdmin == Init /\ [][NextAdmin]_vars

(* The statuses of a write that was carried out. *)
Success == {200, 201, 204}

(* A write that names a stored row, or creates one. *)
Targets(act, pk, rows) == act = "create" \/ pk \in rows

(* C11: every write of a staff user succeeds: create, full update, partial *)
(* update and delete, sent by staff with valid data to a stored row of     *)
(* stations, routes, trains, journeys, crew or train types, is answered    *)
(* 200, 201 or 204.                                                        *)
C11_StaffWritesSucceed ==
    [][\A act \in Writes, pk \in Pks :
        /\ (StationWrite("admin", act, pk, TRUE) /\ Targets(act, pk, stations))
              => resp'.status \in Success
        /\ (/\ RouteWrite("admin", act, pk, NewRoute)
            /\ Targets(act, pk, DOMAIN routes)
            /\ {NewRoute.source, NewRoute.destination} \subseteq stations)
              => resp'.status \in Success
        /\ (/\ TrainWrite("admin", act, pk, NewTrain)
            /\ Targets(act, pk, DOMAIN trains)
            /\ NewTrain.train_type \in traintypes)
              => resp'.status \in Success
        /\ (/\ JourneyWrite("admin", act, pk, NewJourney)
            /\ Targets(act, pk, DOMAIN journeys)
            /\ NewJourney.route \in DOMAIN routes
            /\ NewJourney.train \in DOMAIN trains)
              => resp'.status \in Success
        /\ (CrewWrite("admin", act, pk, TRUE) /\ Targets(act, pk, crews))
              => resp'.status \in Success
        /\ (TrainTypeWrite("admin", act, pk, TRUE) /\ Targets(act, pk, traintypes))
              => resp'.status \in Success]_vars

----------------------------------------------------------------------------
(* Crew, train types and orders as a visitor, a customer and staff meet    *)
(* them.                                                                   *)

Roles == {"anon", "alice", "admin"}

StaffOnly == {"crew", "traintype"}

NextRoles ==
    \/ \E u \in Roles, data \in PayloadsUpTo(ApiInputs, 1) : PostOrder(1, u, data)
    \/ ValidateTicket(1)
    \/ CreateOrder(1)
    \/ CreateTicket(1)
    \/ Commit(1)
    \/ \E u \in Roles : OrderList(u)
    \/ \E u \in Roles, res \in StaffOnly : PlainList(u, res)
    \/ \E u \in Roles, res \in StaffOnly, pk \in Pks : PlainRetrieve(u, res, pk)
    \/ \E u \in Roles, act \in Writes, pk \in Pks, valid \in BOOLEAN :
          CrewWrite(u, act, pk, valid)
    \/ \E u \in Roles, act \in Writes, pk \in Pks, valid \in BOOLEAN :
          TrainTypeWrite(u, act, pk, valid)

SpecRoles == Init /\ [][NextRoles]_vars

(* C12: every action on crew and train types, list included, is answered   *)
(* 401 to a request without credentials and 403 to a signed-in user who is *)
(* not staff, and is not refused to staff; the order list and order        *)
(* creation are not refused to any signed-in user, staff or not.           *)
C12_StaffOnlyAndOrders ==
    /\ resp.resource \in StaffOnly =>
          CASE ~is_authenticated(resp.user) -> resp.status = 401
            [] is_staff(resp.user) ->
                  /\ resp.status \notin {401, 403}
                  /\ resp.action = "list" => resp.status = 200
            [] OTHER -> resp.status = 403
    /\ (resp.resource = "order" /\ resp.action = "list") =>
          resp.status = IF is_authenticated(resp.user) THEN 200 ELSE 401
    /\ \A r \in Slots :
          (Done(r) /\ is_authenticated(req[r].user)) => req[r].status \notin {401, 403}

----------------------------------------------------------------------------
(* Two customers and a staff user book, look at and cancel orders. *)

Owners == {"alice", "bob"}

OwnInputs == TicketData({1}, 1..MaxCap, {1})

NextOwn ==
    \/ \E u \in Owners, data \in PayloadsUpTo(OwnInputs, 1) : PostOrder(1, u, data)
    \/ ValidateTicket(1)
    \/ CreateOrder(1)
    \/ CreateTicket(1)
    \/ Commit(1)
    \/ \E u \in Owners \cup {"admin"} : OrderList(u)
    \/ \E u \in Owners \cup {"admin"}, pk \in 1..MaxPosts : OrderRetrieve(u, pk)
    \/ \E u \in Owners \cup {"admin"}, pk \in 1..MaxPosts : DestroyOrder(u, pk)

SpecOwn == Init /\ [][NextOwn]_vars

(* The stored orders of somebody other than u. *)
Foreign(u) == {o \in DOMAIN orders : orders[o].user # u}

(* What the order list and order retrieve show the requester. *)
OwnOrdersShown ==
    resp.resource = "order" =>
        /\ (resp.action = "list" /\ resp.status = 200) =>
              /\ {resp.body[i].id : i \in 1..Len(resp.body)} = DOMAIN orders \ Foreign(resp.user)
              /\ \A i \in 1..Len(resp.body) :
                    resp.body[i].tickets =
                        {Triple(t) : t \in {x \in tickets : x.order = resp.body[i].id}}
        /\ (resp.action = "retrieve" /\ resp.pk \in Foreign(resp.user)) =>
              resp.status = 404 /\ resp.body = <<>>
        /\ (resp.action = "retrieve" /\ resp.status = 200) =>
              resp.pk \in DOMAIN orders \ Foreign(resp.user)

(* A delete aimed at somebody else's order. *)
ForeignDelete ==
    /\ resp' # resp
    /\ resp'.resource = "order" /\ resp'.action = "destroy"
    /\ resp'.pk \in Foreign(resp'.user)

(* C13: a signed-in user lists, retrieves and deletes only their own       *)
(* orders: the list holds exactly the requester's orders with their        *)
(* tickets, whatever others have ordered; retrieve and delete of somebody  *)
(* else's order are answered 404, and the delete leaves it stored.         *)
C13_OwnOrdersOnly ==
    []OwnOrdersShown /\ [][ForeignDelete => (resp'.status = 404 /\ UNCHANGED book)]_vars

C13_Witness ==
    /\ resp.resource = "order" /\ resp.action = "list" /\ resp.status = 200
    /\ Len(resp.body) = 1
    /\ Foreign(resp.user) # {}
    /\ \E t \in tickets : t.order \in Foreign(resp.user)

----------------------------------------------------------------------------
(* A customer books and cancels while staff delete stations, routes,       *)
(* trains, journeys and train types.                                       *)

NextCascade ==
    \/ \E data \in Payloads(ApiInputs) : PostOrder(1, "alice", data)
    \/ ValidateTicket(1)
    \/ CreateOrder(1)
    \/ CreateTicket(1)
    \/ Commit(1)
    \/ \E o \in 1..MaxPosts : DestroyOrder("alice", o)
    \/ \E pk \in StationIds : StationWrite("admin", "destroy", pk, TRUE)
    \/ \E pk \in RouteIds : RouteWrite("admin", "destroy", pk, NewRoute)
    \/ \E pk \in TrainIds : TrainWrite("admin", "destroy", pk, NewTrain)
    \/ \E pk \in JourneyIds : JourneyWrite("admin", "destroy", pk, NewJourney)
    \/ TrainTypeWrite("admin", "destroy", 1, TRUE)

SpecCascade == Init /\ [][NextCascade]_vars

(* Every reference of a stored row names a stored row. *)
ReferencesStored ==
    /\ \A t \in tickets : t.order \in DOMAIN orders /\ t.journey \in DOMAIN journeys
    /\ \A j \in DOMAIN journeys :
          journeys[j].route \in DOMAIN routes /\ journeys[j].train \in DOMAIN trains
    /\ \A r \in DOMAIN routes : {routes[r].source, routes[r].destination} \subseteq stations

(* A step that stores a ticket is the commit of an order creation, and the *)
(* tickets it stores are those of the order.                               *)
StoredByOrderCreation ==
    (tickets' \ tickets # {}) =>
        \E r \in Slots :
            /\ req[r].pc = "commit" /\ req'[r].pc = "done" /\ req'[r].status = 201
            /\ req[r].id \in DOMAIN orders'
            /\ tickets' \ tickets = Pending(r)
            /\ {Triple(t) : t \in Pending(r)} = Triples(req[r].data)
            /\ \A t \in Pending(r) : t.order = req[r].id

(* C14: tickets are stored only by order creation, and every stored ticket *)
(* references a stored order and a stored journey: deleting an order, or a *)
(* journey directly or by deleting its route, a station of its route or    *)
(* its train, removes the tickets that referenced it.                      *)
C14_TicketsFollowOrderAndJourney ==
    []ReferencesStored /\ [][StoredByOrderCreation]_vars

C14_Witness ==
    /\ resp.resource = "station" /\ resp.action = "destroy" /\ resp.status = 204
    /\ Done(1) /\ req[1].status = 201 /\ Len(req[1].data) = 2
    /\ req[1].id \in DOMAIN orders
    /\ tickets = {}

(* The journeys of train pk. *)
JourneysOn(pk) == {j \in DOMAIN journeys : journeys[j].train = pk}

(* A staff delete of the stored train pk. *)
TrainDelete(pk) == TrainWrite("admin", "destroy", pk, NewTrain) /\ pk \in DOMAIN trains

(* C15 as stated: a delete of a train that references a train type is      *)
(* rejected and leaves the train, its journeys and their tickets stored.   *)
C15_TrainDeleteBlocked ==
    [][\A pk \in TrainIds :
        (TrainDelete(pk) /\ trains[pk].train_type \in traintypes) =>
            (resp'.status \notin Success /\ UNCHANGED <<ref, book>>)]_vars

(* C15, amended: the protected reference guards the train type, not the    *)
(* train.  A delete of a train is carried out (204) and removes the train, *)
(* its journeys and their tickets and nothing else; every stored train     *)
(* keeps naming a stored train type.                                       *)
C15_TrainDeleteCascades ==
    /\ [](\A t \in DOMAIN trains : trains[t].train_type \in traintypes)
    /\ [][\A pk \in TrainIds :
            TrainDelete(pk) =>
                /\ resp'.status = 204
                /\ trains' = Restrict(trains, DOMAIN trains \ {pk})
                /\ journeys' = Restrict(journeys, DOMAIN journeys \ JourneysOn(pk))
                /\ tickets' = {t \in tickets : t.journey \notin JourneysOn(pk)}
                /\ UNCHANGED <<stations, routes, crews, traintypes, orders>>]_vars

C15_Witness ==
    /\ resp.resource = "train" /\ resp.action = "destroy" /\ resp.status = 204
    /\ resp.pk \notin DOMAIN trains
    /\ Done(1) /\ req[1].status = 201 /\ Len(req[1].data) = 2
    /\ req[1].id \in DOMAIN orders
    /\ Cardinality(tickets) = 1
    /\ traintypes # {}

----------------------------------------------------------------------------
(* Searching the journey list while time passes and staff move journeys    *)
(* to other times and routes.                                              *)

Queries == {<<>>, <<"a">>, <<"A", "B">>, <<"B", "a">>, <<"a", "a">>}

DateParams == {<<>>} \cup {<<d>> : d \in 0..(MaxDeparture \div TicksPerDay)}

NextList ==
    \/ \E source \in Queries, destination \in Queries, date \in DateParams :
          JourneySearch("alice", source, destination, date)
    \/ \E pk \in JourneyIds, t \in 0..MaxDeparture :
          JourneyWrite("admin", "partial_update", pk, [departure_time |-> t])
    \/ \E pk \in JourneyIds, r \in RouteIds :
          JourneyWrite("admin", "partial_update", pk, [route |-> r])
    \/ Tick

SpecList == Init /\ [][NextList]_vars

(* q occurs in name when both are written in lower case. *)
Matches(name, q) ==
    \E a \in 1..(Len(name) + 1), b \in 0..Len(name) :
        [i \in 1..(b - a + 1) |-> lower(name[a + i - 1])] = [i \in 1..Len(q) |-> lower(q[i])]

(* The journeys a search is to return. *)
Wanted(source, destination, date) ==
    {j \in DOMAIN journeys :
        /\ journeys[j].departure_time >= now
        /\ Matches(StationName(routes[journeys[j].route].source), source)
        /\ Matches(StationName(routes[journeys[j].route].destination), destination)
        /\ date # <<>> => journeys[j].departure_time >= date[1] * TicksPerDay}

(* C16: the journey list returns exactly the journeys that depart at or    *)
(* after the current time and pass the filters given (source and           *)
(* destination: case-insensitive substring of the station name; date:      *)
(* departure at or after 00:00 of that date), each once, in ascending      *)
(* order of departure_time.                                                *)
C16_JourneyListFiltered ==
    [][\A source \in Queries, destination \in Queries, date \in DateParams :
        JourneySearch("alice", source, destination, date) =>
            LET n == Len(resp'.body)
                id(i) == resp'.body[i].id
            IN /\ resp'.status = 200
               /\ {id(i) : i \in 1..n} = Wanted(source, destination, date)
               /\ \A a, b \in 1..n : a < b =>
                     /\ id(a) # id(b)
                     /\ journeys[id(a)].departure_time <= journeys[id(b)].departure_time]_vars

C16_Witness ==
    /\ resp.resource = "journey" /\ resp.action = "list" /\ resp.status = 200
    /\ now = 1
    /\ Len(resp.body) = 1
    /\ \E j \in DOMAIN journeys :
          journeys[j].departure_time >= now /\ j # resp.body[1].id

(* The request in slot r ends refused in this step. *)
Refused(r) == req[r].pc \notin {"idle", "done"} /\ req'[r].pc = "done" /\ req'[r].status # 201

(* Ticket data d asks for the cargo, seat and journey of the row t. *)
SameSeatSameJourney(d, t) ==
    d.cargo = t.cargo /\ d.seat = t.seat /\ d.journey = t.journey

(* The tickets that stand in the way of slot r: stored, or written by      *)
(* another transaction that is still open.                                 *)
Taken(r) == tickets \cup UNION {Pending(x) : x \in Slots \ {r}}

(* Validation of slot r reports its ticket k as already booked. *)
ReportsBooked(r) ==
    /\ req[r].pc = "validate"
    /\ Len(req'[r].errors) = Len(req[r].errors) + 1
    /\ req'[r].errors[Len(req'[r].errors)] = "unique"

(* C17: seat uniqueness is per journey: an order of distinct in-range      *)
(* tickets is refused only because one of its tickets asks for a (cargo,   *)
(* seat) that another order holds on the same journey; a ticket with the   *)
(* same (cargo, seat) on another journey never refuses it, whoever places  *)
(* the orders and in whatever order they arrive.                           *)
C17_UniquePerJourney ==
    [][\A r \in Slots :
        /\ ReportsBooked(r) =>
              \E t \in tickets : SameSeatSameJourney(req[r].data[req[r].k], t)
        /\ (Refused(r) /\ req[r].pc = "validate" /\ AllInRange(req[r].data)) =>
              \E i \in 1..Len(req'[r].errors) : req'[r].errors[i] = "unique"
        /\ (Refused(r) /\ req[r].pc # "validate"
                /\ AllInRange(req[r].data) /\ NoDuplicates(req[r].data)) =>
              \E t \in Taken(r) : SameSeatSameJourney(req[r].data[req[r].k], t)]_vars

C17_Witness ==
    \E t1, t2 \in tickets :
        /\ t1.cargo = t2.cargo /\ t1.seat = t2.seat
        /\ t1.journey # t2.journey
        /\ orders[t1.order].user # orders[t2.order].user

----------------------------------------------------------------------------
(* Staff create, change and delete trains, with and without an image in    *)
(* the request, and upload images.                                         *)

TrainRequests ==
    {NewTrain,
     [cargo_num |-> 1, places_in_cargo |-> 1, train_type |-> 1, image |-> TRUE],
     [image |-> TRUE],
     [cargo_num |-> MaxCap]}

NextTrain ==
    \/ \E act \in Writes, pk \in Pks, data \in TrainRequests : TrainWrite("admin", act, pk, data)
    \/ \E pk \in Pks, valid \in BOOLEAN : UploadImage("admin", pk, valid)
    \/ \E pk \in Pks : PlainRetrieve("alice", "train", pk)

SpecTrain == Init /\ [][NextTrain]_vars

(* The image of train t changes in this step, or t is new and has one. *)
ImageSet(t) ==
    IF t \in DOMAIN trains THEN trains'[t].image # trains[t].image
    ELSE trains'[t].image # FALSE

(* This step answers an image upload. *)
Uploads == resp' # resp /\ resp'.resource = "train" /\ resp'.action = "upload_image"

(* C18: creating or updating a train through the regular train endpoints   *)
(* never sets or changes its image, also when the request carries one;     *)
(* only the upload-image action changes the image, and it changes no other *)
(* field of the train and stores nothing when the image is invalid (400).  *)
C18_ImageOnlyByUpload ==
    [][/\ \A t \in DOMAIN trains' :
            ImageSet(t) => (Uploads /\ resp'.status = 200 /\ resp'.pk = t)
       /\ Uploads =>
            /\ DOMAIN trains' = DOMAIN trains
            /\ \A t \in DOMAIN trains :
                  /\ trains'[t].cargo_num = trains[t].cargo_num
                  /\ trains'[t].places_in_cargo = trains[t].places_in_cargo
                  /\ trains'[t].train_type = trains[t].train_type
                  /\ t # resp'.pk => trains'[t].image = trains[t].image
            /\ resp'.status # 200 => trains' = trains
            /\ UNCHANGED <<stations, routes, journeys, crews, traintypes, seq, book>>]_vars

(* A train that held an image kept it through an update, and a train      *)
(* created after the initial ones, by a request carrying an image, has none. *)
C18_Witness ==
    /\ resp.resource = "train" /\ resp.action = "partial_update" /\ resp.status = 200
    /\ resp.pk \in DOMAIN trains
    /\ trains[resp.pk].image = TRUE
    /\ trains[resp.pk].cargo_num = MaxCap
    /\ \E t \in DOMAIN trains : t > NumJourneys /\ trains[t].image = FALSE

----------------------------------------------------------------------------
(* An order that names the same seat twice (Spec) *)

(* The request of slot r was received and its ticket list repeats a        *)
(* (cargo, seat, journey).                                                 *)
RepeatsSeat(r) == req[r].pc # "idle" /\ ~NoDuplicates(req[r].data)

(* C19: an order whose own ticket list contains the same (cargo, seat,     *)
(* journey) twice is rejected as a whole: it never reaches its commit, it  *)
(* is never answered 201, and neither its Order row nor any of its tickets *)
(* is stored, also when every one of its tickets passed validation.        *)
C19_RepeatedSeatRejected ==
    \A r \in Slots :
        RepeatsSeat(r) =>
            /\ req[r].pc # "commit"
            /\ req[r].status # 201
            /\ req[r].id \notin DOMAIN orders
            /\ \A t \in tickets : t.order # req[r].id

(* An order of two tickets for the same seat passed validation on both,    *)
(* wrote the first and was refused at the insert of the second.            *)
C19_Witness ==
    \E r \in Slots :
        /\ RepeatsSeat(r)
        /\ Rejected(r) /\ req[r].status = 500 /\ req[r].k = 2
        /\ Len(req[r].errors) = Len(req[r].data) /\ AllOk(req[r].errors)
        /\ Triple(req[r].data[1]) = Triple(req[r].data[2])
        /\ \A t \in tickets : Triple(t) # Triple(req[r].data[1])

----------------------------------------------------------------------------
(* Ticket.save while staff edit the trains (SpecStaff) *)

(* Slot r takes the step that saves the ticket at position req[r].k. *)
Saves(r) == req[r].pc = "insert" /\ req'[r] # req[r]

(* C20: the range check runs on every Ticket.save: a save of a ticket      *)
(* whose seat is outside [1, places_in_cargo] or whose cargo is outside    *)
(* [1, cargo_num] of the train its journey has when it is saved raises a   *)
(* validation error (400) and writes nothing, so that no stored or pending *)
(* ticket was out of range when it was saved.                              *)
C20_SaveChecksRange ==
    [][\A r \in Slots :
          (Saves(r) /\ ~InRange(req[r].data[req[r].k])) =>
              /\ req'[r].pc = "done"
              /\ req'[r].status = 400
              /\ UNCHANGED book]_vars

----------------------------------------------------------------------------
(* What an order creation does to the availability of journeys (Spec) *)

(* The number of tickets of the payload data that are for journey j. *)
TicketsOn(data, j) == Cardinality({i \in 1..Len(data) : data[i].journey = j})

(* Slot r takes the step that commits its order. *)
Commits(r) == req[r].pc = "commit" /\ req'[r].pc = "done" /\ req'[r].status = 201

(* Slot r takes the step that refuses its order. *)
Refuses(r) == ~Done(r) /\ req'[r].pc = "done" /\ req'[r].status # 201

(* C21: a successful order creation lowers available_tickets of each       *)
(* journey by the number of the order's tickets on that journey, so by n   *)
(* for n tickets on journey j and by nothing for the other journeys, and   *)
(* leaves every order and ticket stored before as it was; a rejected order *)
(* creation leaves available_tickets of every journey unchanged.           *)
C21_AvailabilityFollowsOrders ==
    [][\A r \in Slots :
          /\ Commits(r) =>
                /\ \A j \in DOMAIN journeys :
                      annotate(j)' = annotate(j) - TicketsOn(req[r].data, j)
                /\ tickets \subseteq tickets'
                /\ \A t \in tickets' \ tickets : t.order = req[r].id
                /\ \A o \in DOMAIN orders : o \in DOMAIN orders' /\ orders'[o] = orders[o]
                /\ DOMAIN orders' = DOMAIN orders \cup {req[r].id}
          /\ Refuses(r) =>
                \A j \in DOMAIN journeys : annotate(j)' = annotate(j)]_vars

(* An order with one ticket on each journey is stored next to an order     *)
(* stored before it, and both journeys have fewer seats available than     *)
(* their trains have.                                                      *)
C21_Witness ==
    \E r \in Slots :
        /\ Done(r) /\ req[r].status = 201 /\ Len(req[r].data) = 2
        /\ req[r].data[1].journey # req[r].data[2].journey
        /\ \E o \in DOMAIN orders : o < req[r].id
        /\ \A j \in DOMAIN journeys : annotate(j) < Capacity(j)

----------------------------------------------------------------------------
(* Booking on a journey whose train staff make smaller: one customer       *)
(* orders seats of journey 1 while staff change the layout of its train.   *)

GateInputs == TicketData(Caps, Caps, {1})

NextGate ==
    \/ \E data \in Payloads(GateInputs) : PostOrder(1, "alice", data)
    \/ ValidateTicket(1)
    \/ CreateOrder(1)
    \/ CreateTicket(1)
    \/ Commit(1)
    \/ \E act \in {"update", "partial_update"}, data \in TrainPayloads :
          TrainWrite("admin", act, 1, data)

SpecGate == Init /\ [][NextGate]_vars

(* Slot r takes the step that validates the ticket at position req[r].k. *)
Validates(r) == req[r].pc = "validate" /\ req'[r] # req[r]

(* C22: the availability count is not a gate.  Validation passes a ticket  *)
(* exactly when it is in the range of its journey's train and no stored    *)
(* ticket has its (cargo, seat, journey), and the insert of a ticket is    *)
(* refused exactly when the range check of Ticket.save fails or its        *)
(* (cargo, seat, journey) is taken: a free in-range seat is accepted also  *)
(* when available_tickets of its journey is zero or negative.              *)
C22_AvailabilityIsNoGate ==
    [][\A r \in Slots :
          /\ Validates(r) =>
                LET d == req[r].data[req[r].k]
                IN (req'[r].errors[req[r].k] = "ok")
                      <=> (InRange(d) /\ \A t \in tickets : Triple(t) # Triple(d))
          /\ Saves(r) =>
                LET d == req[r].data[req[r].k]
                IN (req'[r].pc = "done")
                      <=> \/ clean(r, req[r].k) # "ok"
                          \/ \E t \in tickets \cup Pending(r) : Triple(t) = Triple(d)]_vars

(* An order of one ticket was validated and written while the train its    *)
(* validation read had fewer seats than journey 1 has tickets.             *)
C22_Witness ==
    /\ req[1].pc = "commit" /\ Len(req[1].data) = 1
    /\ InRange(req[1].data[1])
    /\ req[1].seen[1].cargo_num * req[1].seen[1].places_in_cargo < CountTickets(1)
    /\ annotate(1) < 0

----------------------------------------------------------------------------
(* Who owns an order: alice sends order requests whose body names another  *)
(* user as the owner, bob sends plain ones, and both try to update and     *)
(* delete orders.                                                          *)

(* The fields of OrderSerializer that are read from the request: id and    *)
(* created_at are read-only, user is not a field.                          *)
OrderFields == {"tickets"}

save_body_over_kwargs(u, body) == Known(body, OrderFields \cup {"user"}) @@ [user |-> u]

(* serializer.save(user=self.request.user): the validated data of the      *)
(* declared fields, with the keyword arguments laid over it.               *)
perform_create(u, body) == [user |-> u] @@ Known(body, OrderFields)

(* POST /orders/ with a request body that may carry more than tickets. *)
PostOrderBody(r, u, body) ==
    PostOrder(r, perform_create(u, body).user, perform_create(u, body).tickets)

OwnerBodies(r) ==
    IF r = 1
    THEN [tickets : PayloadsUpTo(OwnInputs, 1), user : {"bob", "admin"}]
    ELSE [tickets : PayloadsUpTo(OwnInputs, 1)]

NextOwner ==
    \/ \E r \in Slots : \E body \in OwnerBodies(r) : PostOrderBody(r, Customer(r), body)
    \/ \E r \in Slots : ValidateTicket(r)
    \/ \E r \in Slots : CreateOrder(r)
    \/ \E r \in Slots : CreateTicket(r)
    \/ \E r \in Slots : Commit(r)
    \/ \E u \in Owners, act \in {"update", "partial_update"}, pk \in 1..MaxPosts,
          has_tickets \in BOOLEAN :
          OrderUpdate(u, act, pk, has_tickets, <<[cargo |-> 1, seat |-> 1, journey |-> 1]>>)
    \/ \E u \in Owners, pk \in 1..MaxPosts : DestroyOrder(u, pk)

SpecOwner == Init /\ [][NextOwner]_vars

(* The request in slot r and the order it stored belong to the user who    *)
(* sent it.                                                                *)
OwnedBySender ==
    \A r \in Slots :
        req[r].pc # "idle" =>
            /\ req[r].user = Customer(r)
            /\ req[r].id \in DOMAIN orders => orders[req[r].id].user = Customer(r)

(* A step keeps the owner of every order it keeps. *)
OwnerKept == \A o \in DOMAIN orders \cap DOMAIN orders' : orders'[o].user = orders[o].user

(* C23: every order created through the API is owned by the authenticated  *)
(* user who sent the request, also when the request body names another     *)
(* user as the owner, and no later request changes the owner of a stored   *)
(* order.                                                                  *)
C23_OwnerIsSender == []OwnedBySender /\ [][OwnerKept]_vars

(* alice's order, whose request body named another owner, is stored as     *)
(* hers next to an order of bob, and she has just sent a PATCH to it.      *)
C23_Witness ==
    /\ req[1].pc = "done" /\ req[1].status = 201
    /\ req[1].id \in DOMAIN orders /\ orders[req[1].id].user = "alice"
    /\ \E o \in DOMAIN orders : orders[o].user = "bob"
    /\ resp.user = "alice" /\ resp.action = "partial_update"
    /\ resp.pk = req[1].id /\ resp.status = 200

----------------------------------------------------------------------------
(* Deleting an order gives its seats back (Spec) *)

(* This step answers the deletion of an order with 204. *)
Deletes == resp' # resp /\ resp'.resource = "order" /\ resp'.action = "destroy"
           /\ resp'.status = 204

(* C24: when a user deletes one of their orders, the order and all of its  *)
(* tickets are gone and no other ticket is, available_tickets of each      *)
(* journey rises by the number of tickets removed from it, and each        *)
(* (cargo, seat, journey) the order held is free again: no stored or       *)
(* pending ticket has it, and the validation of a later order passes it.   *)
C24_DeleteFreesSeats ==
    [][Deletes =>
          /\ resp'.pk \in DOMAIN orders /\ orders[resp'.pk].user = resp'.user
          /\ resp'.pk \notin DOMAIN orders'
          /\ tickets' = {t \in tickets : t.order # resp'.pk}
          /\ \A j \in DOMAIN journeys :
                annotate(j)' = annotate(j)
                               + Cardinality({t \in tickets : t.order = resp'.pk /\ t.journey = j})
          /\ \A t \in tickets \ tickets' :
                /\ TicketErrors(t)' = "ok"
                /\ \A r \in Slots : ~UniqueViolation(r, t)' /\ Holders(r, t)' = {}]_vars

(* The first order was deleted and a later order that asked for one of its *)
(* seats was created.                                                      *)
C24_Witness ==
    \E r, s \in Slots :
        /\ Done(s) /\ req[s].status = 201 /\ req[s].id \notin DOMAIN orders
        /\ Done(r) /\ req[r].status = 201 /\ req[r].id \in DOMAIN orders
        /\ req[s].id < req[r].id
        /\ \E t \in tickets :
              t.order = req[r].id /\ Triple(t) \in Triples(req[s].data)

----------------------------------------------------------------------------
(* The layouts staff can give a train: any integers, here from -1 up. *)

Layouts == {-1, 0, 1, MaxCap}

LayoutRequests ==
    [cargo_num : Layouts, places_in_cargo : Layouts, train_type : {1}]
    \cup [cargo_num : Layouts] \cup [places_in_cargo : Layouts]

NextLayout ==
    \/ \E act \in Writes, pk \in Pks, data \in LayoutRequests : TrainWrite("admin", act, pk, data)
    \/ JourneyList("alice")

SpecLayout == Init /\ [][NextLayout]_vars

(* C25: every stored train has cargo_num > 0 and places_in_cargo > 0, and  *)
(* train creation and update keep this.                                    *)
C25_TrainLayoutPositive ==
    \A t \in DOMAIN trains : trains[t].cargo_num > 0 /\ trains[t].places_in_cargo > 0

----------------------------------------------------------------------------
(* The wait_for_db management command *)

Count(n) == IF n < MaxTries THEN n + 1 ELSE MaxTries

OutcomesFlaky(up) == {"ok", "OperationalError"}

(* What connections["default"] does: it succeeds when the database is up;  *)
(* while it is down it raises OperationalError or, not having connected    *)
(* yet, hands out the connection object.                                   *)
Outcomes(up) == IF up THEN {"ok"} ELSE {"ok", "OperationalError"}

(* try: _ = connections["default"]; on success the message is written and  *)
(* handle returns 0, on OperationalError control goes to the handler.      *)
Connect ==
    /\ cmd.pc = "try"
    /\ \E outcome \in Outcomes(cmd.up) :
          cmd' = IF outcome = "ok"
                 THEN [cmd EXCEPT !.pc = "exit", !.code = 0]
                 ELSE [cmd EXCEPT !.pc = "sleep", !.raised = Count(@)]
    /\ UNCHANGED <<ref, book, flight, resp, now>>

(* except OperationalError: time.sleep(1) *)
Sleep ==
    /\ cmd.pc = "sleep"
    /\ cmd' = [cmd EXCEPT !.pc = "write", !.slept = Count(@)]
    /\ UNCHANGED <<ref, book, flight, resp, now>>

(* self.stdout.write("Waiting for connection..."), then the loop again. *)
WriteWaiting ==
    /\ cmd.pc = "write"
    /\ cmd' = [cmd EXCEPT !.pc = "try", !.waiting = Count(@)]
    /\ UNCHANGED <<ref, book, flight, resp, now>>

(* The database comes up or goes down. *)
DbChange ==
    /\ cmd' = [cmd EXCEPT !.up = ~@]
    /\ UNCHANGED <<ref, book, flight, resp, now>>

NextWait == Connect \/ Sleep \/ WriteWaiting \/ DbChange

(* The command is a sequential program that keeps running. *)
SpecWait ==
    /\ Init /\ [][NextWait]_vars
    /\ WF_vars(Connect) /\ WF_vars(Sleep) /\ WF_vars(WriteWaiting)

(* The command has ended only by returning 0. *)
ExitsWithSuccess == (cmd.pc = "exit" \/ cmd.code # -1) => (cmd.pc = "exit" /\ cmd.code = 0)

(* Every attempt that raised is followed by one second of sleep and one    *)
(* line of output before the next attempt.                                 *)
OncePerSecond ==
    cmd.raised < MaxTries =>
        /\ cmd.slept = IF cmd.pc = "sleep" THEN cmd.raised - 1 ELSE cmd.raised
        /\ cmd.waiting = IF cmd.pc \in {"sleep", "write"} THEN cmd.raised - 1 ELSE cmd.raised

(* An attempt either ends the command with success or, having raised,      *)
(* leads to the sleep; the command ends in no other step.                  *)
AttemptDecides ==
    /\ (cmd.pc = "try" /\ cmd'.pc # "try") =>
          \/ cmd'.pc = "exit" /\ cmd'.code = 0 /\ cmd'.raised = cmd.raised
          \/ cmd'.pc = "sleep" /\ cmd'.code = -1 /\ ~cmd.up
    /\ (cmd.pc # "try" /\ cmd'.pc = "exit") => cmd.pc = "exit"
    /\ cmd.pc = "exit" => (cmd'.pc = "exit" /\ cmd'.code = 0)

(* C26: wait_for_db tries again after one second of sleep for as long as   *)
(* obtaining the default connection raises OperationalError, never ends    *)
(* with a failure, returns 0 as soon as one attempt succeeds, and if the   *)
(* database comes up and stays up the command eventually terminates.       *)
C26_WaitForDbTerminates ==
    /\ [](ExitsWithSuccess /\ OncePerSecond)
    /\ [][AttemptDecides]_vars
    /\ (<>[](cmd.up)) => <>(cmd.pc = "exit")

(* The command returned 0 after three attempts raised, with three seconds  *)
(* slept, while the database is up.                                        *)
C26_Witness ==
    /\ cmd.pc = "exit" /\ cmd.code = 0 /\ cmd.up
    /\ cmd.raised = 3 /\ cmd.slept = 3 /\ cmd.waiting = 3

====
